---- MODULE Spec2Model ----
(***************************************************************************)
(* Model of bitrix24.py: the export pipeline (main_candidate_data:         *)
(* get_candidate_data, save_candidate_to_excel, upload_file_to_lead,       *)
(* save_link_to_file) and the import pipeline (main_smart_process:         *)
(* read_from_excel, create_smart_process), and the script itself, which    *)
(* runs main_candidate_data() and then main_smart_process().               *)
(*                                                                         *)
(* Conventions.                                                            *)
(*  - A Python dict is a function whose DOMAIN is its key set; {} is       *)
(*    EmptyDict.                                                           *)
(*  - A Python value that may be None is a sequence of length <= 1:        *)
(*    None is << >> and a value v is <<v>>.                                *)
(*  - A file name is the sequence of its '_'-delimited tokens, so          *)
(*    'candidates_20241108_1700.xlsx' is                                   *)
(*    <<"candidates", "20241108", "1700.xlsx">> and split('_')[0] is Head. *)
(*  - Every HTTP call is recorded in the log `requests` with the reply the *)
(*    CRM (or the transport) gave to it.                                   *)
(***************************************************************************)
EXTENDS FiniteSets, Integers, Sequences, TLC

VARIABLES
    entry,          \* the entry point that was called
    pc,             \* position of the running entry point
    candidate_id,   \* main_candidate_data: the id read from input
    candidate_data, \* main_candidate_data: value returned by get_candidate_data
    excel_file,     \* main_candidate_data: value returned by save_candidate_to_excel
    field_id,       \* main_candidate_data: value returned by upload_file_to_lead
    files,          \* spreadsheet files written by workbook.save
    requests,       \* log of the HTTP calls made through requests.get/post
    sheet,          \* rows of the active sheet of the workbook to import
    data,           \* list handed to create_smart_process
    idx,            \* create_smart_process: number of items the loop has consumed
    raised,         \* exception that escaped the entry point ("none" if none)
    load_exc        \* what load_workbook raised in read_from_excel ("unread" before)

vars == <<entry, pc, candidate_id, candidate_data, excel_file, field_id, files,
          requests, sheet, data, idx, raised, load_exc>>

----------------------------------------------------------------------------
(* Bounds of the model *)

MaxPhones == 2
MaxEmails == 2
MaxRows == 2
\* the number of data rows of test_crm.xlsx in a run of the whole script
ScriptMaxRows == 2

----------------------------------------------------------------------------
(* Python values *)

None == << >>
Some(v) == <<v>>
EmptyDict == [k \in {} |-> ""]

\* bool(v) of an optional string: None and '' are falsy
TruthyStr(v) == v # None /\ v[1] # ""
\* bool(v) of an optional integer: None and 0 are falsy
TruthyInt(v) == v # None /\ v[1] # 0

Restrict(d, keys) == [k \in keys |-> d[k]]
SeqsUpTo(S, n) == UNION {[1..m -> S] : m \in 0..n}

----------------------------------------------------------------------------
(* Replies of the HTTP layer *)

\* exc: the exception requests.get/post raises ("none": a response came back)
\* status: response.status_code; json_ok: response.json() parses; body: its value
Reply(exc, status, json_ok, body) ==
    [exc |-> exc, status |-> status, json_ok |-> json_ok, body |-> body]

TransportExcs == {"ConnectionError", "ConnectTimeout", "Timeout",
                  "RequestException", "Exception"}

FailedReplies ==
    {Reply(e, 0, FALSE, EmptyDict) : e \in TransportExcs}
    \cup {Reply("none", s, FALSE, EmptyDict) : s \in {404, 500}}
    \cup {Reply("none", 200, FALSE, EmptyDict)}

\* response.raise_for_status() raises HTTPError
RaisesHTTPError(reply) == reply.exc = "none" /\ reply.status >= 400

StatusText(s) == IF s = 404 THEN "404 Client Error"
                 ELSE IF s = 400 THEN "400 Client Error"
                 ELSE "500 Server Error"

----------------------------------------------------------------------------
(* get_candidate_data *)

BITRIX_WEBHOOK_URL == "https://your_domain.bitrix24.ru/rest/1/your_webhook/"

\* the candidate ids typed at the prompt
CandidateIds == {4, 123}

PhoneEntries == {[VALUE |-> "p1", VALUE_TYPE |-> "WORK"],
                 [VALUE |-> "p2", VALUE_TYPE |-> "HOME"],
                 [VALUE_TYPE |-> "WORK"]}
EmailEntries == {[VALUE |-> "e1", VALUE_TYPE |-> "WORK"],
                 [VALUE |-> "e2", VALUE_TYPE |-> "HOME"]}

\* a DATE_CREATE string is the sequence of the fields that the separators
\* '-', 'T', ':' and the sign of the offset delimit:
\* '2023-10-01T12:00:00+0300' and the malformed '2023-10-01'
DateStrings == {<<"2023", "10", "01", "12", "00", "00", "+0300">>,
                <<"2023", "10", "01">>}

FullLeads ==
    {[ID |-> "123", NAME |-> "Ivan", LAST_NAME |-> "Ivanov",
      PHONE |-> ph, EMAIL |-> em, DATE_CREATE |-> dc] :
        ph \in SeqsUpTo(PhoneEntries, MaxPhones),
        em \in SeqsUpTo(EmailEntries, MaxEmails),
        dc \in DateStrings}

\* lead dicts as the CRM may return them: keys may be absent
Leads ==
    FullLeads
    \cup {Restrict(l, DOMAIN l \ {"PHONE"}) : l \in {x \in FullLeads : x.PHONE = << >>}}
    \cup {Restrict(l, DOMAIN l \ {"EMAIL"}) : l \in {x \in FullLeads : x.EMAIL = << >>}}
    \cup {Restrict(l, DOMAIN l \ {"DATE_CREATE"}) :
            l \in {x \in FullLeads : Len(x.DATE_CREATE) = 3}}
    \cup {Restrict(l, DOMAIN l \ {"ID", "NAME", "LAST_NAME"}) :
            l \in {x \in FullLeads : x.PHONE = << >> /\ x.EMAIL = << >>}}

\* well-formed bodies of crm.lead.get
GetBodies ==
    {[result |-> l] : l \in Leads}
    \cup {EmptyDict, [time |-> "t"]}

GetReplies ==
    FailedReplies \cup {Reply("none", 200, TRUE, b) : b \in GetBodies}

\* the leads the CRM returns in a run of the whole script
ScriptLeads ==
    {[ID |-> "123", NAME |-> "Ivan", LAST_NAME |-> "Ivanov",
      PHONE |-> <<[VALUE |-> "p1", VALUE_TYPE |-> "WORK"]>>,
      EMAIL |-> <<[VALUE |-> "e1", VALUE_TYPE |-> "WORK"]>>,
      DATE_CREATE |-> <<"2023", "10", "01", "12", "00", "00", "+0300">>]}

\* the replies to crm.lead.get in a run of the whole script
ScriptGetReplies ==
    FailedReplies
    \cup {Reply("none", 200, TRUE, b) :
            b \in {[result |-> l] : l \in ScriptLeads} \cup {EmptyDict, [time |-> "t"]}}

GetRequest(id, reply) ==
    [verb |-> "GET", url |-> <<BITRIX_WEBHOOK_URL, "crm.lead.get">>,
     payload |-> [id |-> id], reply |-> reply, item |-> 0]

\* the value get_candidate_data returns when the HTTP layer answers `reply`
get_candidate_data(reply) ==
    IF reply.exc = "none"
    THEN IF RaisesHTTPError(reply)
         THEN [error |-> <<"HTTP error: ", StatusText(reply.status)>>]
         ELSE IF reply.json_ok
              THEN reply.body
              ELSE [error |-> <<"Error decoding JSON from response.">>]
    ELSE IF reply.exc \in {"ConnectionError", "ConnectTimeout"}
    THEN [error |-> <<"Connection error occurred.">>]
    ELSE IF reply.exc = "Timeout"
    THEN [error |-> <<"Request timed out.">>]
    ELSE IF reply.exc = "RequestException"
    THEN [error |-> <<"Request failed: ", reply.exc>>]
    ELSE [error |-> <<"An unexpected error occurred.">>]

\* bool(d) of a dict
TruthyDict(d) == DOMAIN d # {}

----------------------------------------------------------------------------
(* save_candidate_to_excel *)

\* datetime.now(): <<year, month, day, hour, minute>>
Clock == {<<"2024", "11", "08", "17", "00">>, <<"2025", "01", "02", "09", "30">>}

\* exceptions workbook.save may raise ("none": the file is written)
SaveExcs == {"none", "FileNotFoundError", "PermissionError"}

\* sheet.title 'Кандидаты' and the header row
\* ['ID', 'Имя', 'Фамилия', 'Телефон', 'Email', 'Дата создания'], transliterated
SheetTitle == "Kandidaty"
headers == <<"ID", "Imya", "Familiya", "Telefon", "Email", "Data sozdaniya">>

\* dict.get(key, default)
Get(d, key, default) == IF key \in DOMAIN d THEN d[key] ELSE default

\* datetime.strptime(s, '%Y-%m-%dT%H:%M:%S%z') succeeds
StrptimeOK(s) == Len(s) = 7
\* datetime.strptime(s, '%Y-%m-%dT%H:%M:%S%z').strftime('%d.%m.%Y')
FormatDate(s) == s[3] \o "." \o s[2] \o "." \o s[1]

\* f"{file_name}_{datetime.now().strftime('%Y%m%d_%H%M')}.xlsx"
file_name_save(file_name, now) ==
    <<file_name, now[1] \o now[2] \o now[3], now[4] \o now[5] \o ".xlsx">>

\* FirstValue taking the last entry of the list (contact_list[-1]) instead
FirstValue_last(contact_list) ==
    IF contact_list # << >>
    THEN IF "VALUE" \in DOMAIN contact_list[Len(contact_list)]
         THEN contact_list[Len(contact_list)].VALUE ELSE "N/A"
    ELSE "N/A"

\* the value of column 4 / 5: contact_list[0]['VALUE'] if contact_list else 'N/A'
FirstValue(contact_list) ==
    IF contact_list # << >> THEN contact_list[1].VALUE ELSE "N/A"

\* contact_list[0]['VALUE'] raises KeyError
FirstValueRaises(contact_list) ==
    contact_list # << >> /\ "VALUE" \notin DOMAIN contact_list[1]

\* the data row written at row_num = 2
DataRow(result) ==
    <<Get(result, "ID", "N/A"),
      Get(result, "NAME", "N/A"),
      Get(result, "LAST_NAME", "N/A"),
      FirstValue(Get(result, "PHONE", << >>)),
      FirstValue(Get(result, "EMAIL", << >>)),
      IF "DATE_CREATE" \in DOMAIN result
      THEN FormatDate(result.DATE_CREATE) ELSE "N/A">>

\* a returned message: its fixed text and the value formatted into it
Message(text, arg) == [text |-> text, arg |-> arg]
\* "Данные кандидата сохранены в {file_name_save}"
SavedText == "Dannye kandidata sokhraneny v "

\* save_candidate_to_excel(candidate_data, file_name) at time `now` when
\* workbook.save raises save_exc: the returned message and the files written
save_candidate_to_excel(cd, file_name, now, save_exc) ==
    IF "result" \notin DOMAIN cd
    THEN [ret |-> Message("No candidate data to save.", << >>), written |-> {}]
    ELSE IF FirstValueRaises(Get(cd.result, "PHONE", << >>))
            \/ FirstValueRaises(Get(cd.result, "EMAIL", << >>))
    THEN [ret |-> Message("Failed to save candidate data: ", <<"'VALUE'">>),
          written |-> {}]
    ELSE IF "DATE_CREATE" \in DOMAIN cd.result /\ ~StrptimeOK(cd.result.DATE_CREATE)
    THEN [ret |-> Message("Error: Problem with data values.", << >>), written |-> {}]
    ELSE IF save_exc = "FileNotFoundError"
    THEN [ret |-> Message("Error: File not found.", << >>), written |-> {}]
    ELSE IF save_exc # "none"
    THEN [ret |-> Message("Failed to save candidate data: ", <<save_exc>>),
          written |-> {}]
    ELSE [ret |-> Message(SavedText, file_name_save(file_name, now)),
          written |-> {[name |-> file_name_save(file_name, now),
                        title |-> SheetTitle,
                        rows |-> <<headers, DataRow(cd.result)>>]}]

----------------------------------------------------------------------------
(* upload_file_to_lead and save_link_to_file *)

\* ids the CRM assigns to a created field (0: a falsy result)
FieldIds == {0, 42, 43}

PostBodies == {[result |-> r] : r \in FieldIds}
              \cup {EmptyDict, [error |-> "ERROR_CORE"]}

PostReplies ==
    FailedReplies \cup {Reply("none", 200, TRUE, b) : b \in PostBodies}

\* the payload of crm.lead.userfield.add; the labels are
\* "Ссылка на файл <token>" and "Ссылка на файл '<token>'"
UserFieldPayload(file_name) ==
    [fields |-> [FIELD_NAME |-> "LINK_TO_CANDIDATS",
                 EDIT_FORM_LABEL |-> <<"Ssylka na fayl ", Head(file_name)>>,
                 LIST_COLUMN_LABEL |-> <<"Ssylka na fayl '", Head(file_name), "'">>,
                 USER_TYPE_ID |-> "file",
                 MULTIPLE |-> "N",
                 MANDATORY |-> "N",
                 SHOW_FILTER |-> "N",
                 SHOW_IN_LIST |-> "Y",
                 IS_SEARCHABLE |-> "N",
                 SORT |-> 100,
                 XML_ID |-> "LINK_TO_CANDIDATE_FILE"]]

UserFieldRequest(file_name, reply) ==
    [verb |-> "POST", url |-> <<BITRIX_WEBHOOK_URL, "crm.lead.userfield.add">>,
     payload |-> UserFieldPayload(file_name), reply |-> reply, item |-> 0]

\* the value upload_file_to_lead returns when the HTTP layer answers `reply`
upload_file_to_lead(reply) ==
    IF reply.exc = "none" /\ ~RaisesHTTPError(reply) /\ reply.json_ok
       /\ "result" \in DOMAIN reply.body
    THEN Some(reply.body.result)
    ELSE None

\* LinkPayload with field_id and candidate_id taken in each other's place
LinkPayload_swapped(fid, file_path, cid) ==
    [id |-> fid, fields |-> [k \in {cid} |-> [value |-> file_path]]]

\* the payload of crm.lead.update.json
LinkPayload(fid, file_path, cid) ==
    [id |-> cid, fields |-> [k \in {fid} |-> [value |-> file_path]]]

LinkRequest(fid, file_path, cid, reply) ==
    [verb |-> "POST", url |-> <<BITRIX_WEBHOOK_URL, "crm.lead.update.json">>,
     payload |-> LinkPayload(fid, file_path, cid), reply |-> reply, item |-> 0]

----------------------------------------------------------------------------
(* main_candidate_data *)

\* the literal 'candidate_4_20241108_1700.xlsx' of main_candidate_data
LinkFileName == <<"candidate", "4", "20241108", "1700.xlsx">>

\* where control goes when main_candidate_data returns: the script calls
\* main_smart_process() next
AfterExport == IF entry = "__main__" THEN "read_from_excel" ELSE "done"

\* candidate_data = get_candidate_data(candidate_id); if candidate_data: ...
GetCandidateData ==
    /\ pc = "get_candidate_data"
    /\ \E reply \in IF entry = "__main__" THEN ScriptGetReplies ELSE GetReplies :
        /\ requests' = Append(requests, GetRequest(candidate_id, reply))
        /\ candidate_data' = get_candidate_data(reply)
        /\ pc' = IF TruthyDict(get_candidate_data(reply))
                 THEN "save_candidate_to_excel" ELSE "upload_file_to_lead"
    /\ UNCHANGED <<entry, candidate_id, excel_file, field_id, files, sheet, data, idx, raised, load_exc>>

\* excel_file = save_candidate_to_excel(candidate_data)
SaveCandidateToExcel ==
    /\ pc = "save_candidate_to_excel"
    /\ \E now \in Clock, save_exc \in SaveExcs :
        LET out == save_candidate_to_excel(candidate_data, "candidates", now, save_exc)
        IN  /\ excel_file' = out.ret
            /\ files' = files \cup out.written
    /\ pc' = "upload_file_to_lead"
    /\ UNCHANGED <<entry, candidate_id, candidate_data, field_id, requests, sheet, data, idx, raised, load_exc>>

\* field_id = upload_file_to_lead('candidate_4_20241108_1700.xlsx'); if field_id: ...
UploadFileToLead ==
    /\ pc = "upload_file_to_lead"
    /\ \E reply \in PostReplies :
        /\ requests' = Append(requests, UserFieldRequest(LinkFileName, reply))
        /\ field_id' = upload_file_to_lead(reply)
        /\ pc' = IF TruthyInt(upload_file_to_lead(reply))
                 THEN "save_link_to_file" ELSE AfterExport
    /\ UNCHANGED <<entry, candidate_id, candidate_data, excel_file, files, sheet, data, idx, raised, load_exc>>

\* save_link_to_file(field_id, 'candidate_4_20241108_1700.xlsx', candidate_id)
SaveLinkToFile ==
    /\ pc = "save_link_to_file"
    /\ \E reply \in PostReplies :
        requests' = Append(requests,
                           LinkRequest(field_id[1], LinkFileName, candidate_id, reply))
    /\ pc' = AfterExport
    /\ UNCHANGED <<entry, candidate_id, candidate_data, excel_file, field_id, files, sheet,
                   data, idx, raised, load_exc>>

----------------------------------------------------------------------------
(* read_from_excel *)

\* a sheet is the sequence of the tuples ws.iter_rows(values_only=True) yields;
\* a cell is None when it is empty.  The worksheet is the environment of
\* read_from_excel: the tuples may be of any length (a stubbed worksheet, as in
\* unitests.py, yields what it is given), and the rows of a workbook file,
\* which openpyxl pads with None to the width of the sheet, are among them.
Cell(v) == IF v = "-" THEN None ELSE Some(v)

HeaderRow == <<Some("Title"), Some("Name"), Some("Last name"), Some("Phone"),
               Some("Email")>>

\* the contents of columns 2, 4, 5 (name, phone, email) of the data rows
Contacts == {<<"N", "P", "E">>, <<"-", "-", "-">>, <<"N", "-", "E">>,
             <<"-", "P", "-">>}

Rows ==
    {<<Cell(t), Cell(c[1]), Cell(l), Cell(c[2]), Cell(c[3])>> :
        t \in {"T", "-"}, l \in {"L", "-"}, c \in Contacts}
    \cup {<<Some("T"), Some(""), Some("L"), Some(""), Some("")>>,
          <<Some("T"), Some("N"), Some("L"), Some("P")>>,
          <<Some("T")>>,
          <<Some("T"), Some("N"), Some("L"), Some("P"), Some("E"), Some("X")>>}

Sheets == {<< >>} \cup {<<HeaderRow>> \o rows : rows \in SeqsUpTo(Rows, MaxRows)}

\* the data rows of test_crm.xlsx in a run of the whole script: a full row,
\* a row of empty cells, a short row
ScriptRows == {<<Some("T"), Some("N"), Some("L"), Some("P"), Some("E")>>,
               <<None, None, None, None, None>>,
               <<Some("T")>>}

ScriptSheets ==
    {<< >>} \cup {<<HeaderRow>> \o rows : rows \in SeqsUpTo(ScriptRows, ScriptMaxRows)}

\* exceptions openpyxl.load_workbook may raise ("none": the workbook opens)
LoadExcs == {"none", "FileNotFoundError", "InvalidFileException", "Exception"}

\* ws.iter_rows(min_row=min_row, values_only=True)
IterRows(ws, min_row) == SubSeq(ws, min_row, Len(ws))

\* the dict appended to data for a row
ImportRow(row) ==
    [TITLE |-> row[1], NAME |-> row[2], LAST_NAME |-> row[3],
     PHONE |-> row[4], EMAIL |-> row[5]]

\* ReadRows leaving the loop at the first short row (break for continue)
RECURSIVE ReadRows_stop(_)
ReadRows_stop(rows) ==
    IF rows = << >> THEN << >>
    ELSE IF Len(Head(rows)) < 5
         THEN << >>
         ELSE <<ImportRow(Head(rows))>> \o ReadRows_stop(Tail(rows))

\* the for loop of read_from_excel over the rows it is given
RECURSIVE ReadRows(_)
ReadRows(rows) ==
    IF rows = << >> THEN << >>
    ELSE IF Len(Head(rows)) < 5
         THEN ReadRows(Tail(rows))
         ELSE <<ImportRow(Head(rows))>> \o ReadRows(Tail(rows))

\* the list read_from_excel returns for the active sheet ws when
\* load_workbook raises load_exc
read_from_excel(ws, exc) ==
    IF exc # "none" THEN << >> ELSE ReadRows(IterRows(ws, 2))

----------------------------------------------------------------------------
(* create_smart_process *)

ItemKeys == {"TITLE", "NAME", "LAST_NAME", "PHONE", "EMAIL"}

\* items a caller of create_smart_process may pass that lack a key
PartialItems ==
    {Restrict(ImportRow(<<Some("T"), Some("N"), Some("L"), Some("P"), Some("E")>>),
              ItemKeys \ {k}) : k \in ItemKeys}
    \cup {ImportRow(<<Some("T"), Some("N"), Some("L"), Some("P"), Some("E")>>)}

\* replies to crm.lead.add: success, HTTP error, transport error, unexpected error
LeadReplies == {Reply("none", 200, TRUE, [result |-> 1]),
                Reply("none", 400, TRUE, [error |-> "ERROR_CORE"]),
                Reply("ConnectionError", 0, FALSE, EmptyDict),
                Reply("Exception", 0, FALSE, EmptyDict)}

\* if not ('TITLE' in item and 'LAST_NAME' in item): ... continue
Skipped(item) == ~("TITLE" \in DOMAIN item /\ "LAST_NAME" \in DOMAIN item)

\* building lead_data raises KeyError
LeadDataRaises(item) == ~({"NAME", "PHONE", "EMAIL"} \subseteq DOMAIN item)

\* ContactList without the test of v
ContactList_always(v) == <<[VALUE |-> v, VALUE_TYPE |-> "HOME"]>>

\* [{'VALUE': v, 'VALUE_TYPE': 'HOME'}] if v else []
ContactList(v) ==
    IF TruthyStr(v) THEN <<[VALUE |-> v, VALUE_TYPE |-> "HOME"]>> ELSE << >>

lead_data(item) ==
    [fields |-> [TITLE |-> item.TITLE,
                 NAME |-> IF TruthyStr(item.NAME) THEN item.NAME ELSE Some("Empty name"),
                 LAST_NAME |-> item.LAST_NAME,
                 PHONE |-> ContactList(item.PHONE),
                 EMAIL |-> ContactList(item.EMAIL)]]

\* item: the position in data of the item the request is made for
LeadRequest(item, i, reply) ==
    [verb |-> "POST", url |-> <<BITRIX_WEBHOOK_URL, "crm.lead.add">>,
     payload |-> lead_data(item), reply |-> reply, item |-> i]

----------------------------------------------------------------------------
(* main_smart_process *)

\* data = read_from_excel('test_crm.xlsx'); if data: ...
ReadFromExcel ==
    /\ pc = "read_from_excel"
    /\ \E exc \in LoadExcs :
        /\ load_exc' = exc
        /\ data' = read_from_excel(sheet, exc)
        /\ pc' = IF read_from_excel(sheet, exc) # << >>
                 THEN "create_smart_process" ELSE "done"
    /\ UNCHANGED <<entry, candidate_id, candidate_data, excel_file, field_id, files,
                   requests, sheet, idx, raised>>

\* create_smart_process: if not data: return
CreateSmartProcessNoData ==
    /\ pc = "create_smart_process"
    /\ data = << >>
    /\ pc' = "done"
    /\ UNCHANGED <<entry, candidate_id, candidate_data, excel_file, field_id, files,
                   requests, sheet, data, idx, raised, load_exc>>

\* create_smart_process: one iteration of `for item in data`
CreateSmartProcessItem ==
    /\ pc = "create_smart_process"
    /\ idx < Len(data)
    /\ LET item == data[idx + 1]
           next_pc == IF idx + 1 = Len(data) THEN "done" ELSE "create_smart_process"
       IN  IF Skipped(item)
           THEN /\ idx' = idx + 1
                /\ pc' = next_pc
                /\ UNCHANGED <<requests, raised>>
           ELSE IF LeadDataRaises(item)
           THEN /\ raised' = "KeyError"
                /\ pc' = "raised"
                /\ UNCHANGED <<requests, idx>>
           ELSE /\ \E reply \in LeadReplies :
                     requests' = Append(requests, LeadRequest(item, idx + 1, reply))
                /\ idx' = idx + 1
                /\ pc' = next_pc
                /\ UNCHANGED raised
    /\ UNCHANGED <<entry, candidate_id, candidate_data, excel_file, field_id, files,
                   sheet, data, load_exc>>

----------------------------------------------------------------------------
(* The entry points *)

NoMessage == Message("", << >>)

\* the script is run (__main__): main_candidate_data() is entered, and
\* main_smart_process() follows it; 'test_crm.xlsx' holds `sheet`
\* (<< >> also when there is no such file)
InitMain ==
    /\ entry = "__main__"
    /\ pc = "get_candidate_data"
    /\ candidate_id \in CandidateIds
    /\ candidate_data = EmptyDict
    /\ excel_file = NoMessage
    /\ field_id = None
    /\ files = {}
    /\ requests = << >>
    /\ sheet \in ScriptSheets
    /\ data = << >>
    /\ idx = 0
    /\ raised = "none"
    /\ load_exc = "unread"

\* main_candidate_data() is called on its own
InitExport ==
    /\ entry = "main_candidate_data"
    /\ pc = "get_candidate_data"
    /\ candidate_id \in CandidateIds
    /\ candidate_data = EmptyDict
    /\ excel_file = NoMessage
    /\ field_id = None
    /\ files = {}
    /\ requests = << >>
    /\ sheet = << >>
    /\ data = << >>
    /\ idx = 0
    /\ raised = "none"
    /\ load_exc = "unread"

\* main_smart_process() is called on its own; 'test_crm.xlsx' holds `sheet`
InitImport ==
    /\ entry = "main_smart_process"
    /\ pc = "read_from_excel"
    /\ candidate_id = 0
    /\ candidate_data = EmptyDict
    /\ excel_file = NoMessage
    /\ field_id = None
    /\ files = {}
    /\ requests = << >>
    /\ sheet \in Sheets
    /\ data = << >>
    /\ idx = 0
    /\ raised = "none"
    /\ load_exc = "unread"

\* create_smart_process(data) is called with a list of the caller's making
InitCreate ==
    /\ entry = "create_smart_process"
    /\ pc = "create_smart_process"
    /\ candidate_id = 0
    /\ candidate_data = EmptyDict
    /\ excel_file = NoMessage
    /\ field_id = None
    /\ files = {}
    /\ requests = << >>
    /\ sheet = << >>
    /\ data \in SeqsUpTo(PartialItems, MaxRows)
    /\ idx = 0
    /\ raised = "none"
    /\ load_exc = "unread"

Init == InitMain \/ InitExport \/ InitImport \/ InitCreate

Next ==
    \/ GetCandidateData
    \/ SaveCandidateToExcel
    \/ UploadFileToLead
    \/ SaveLinkToFile
    \/ ReadFromExcel
    \/ CreateSmartProcessNoData
    \/ CreateSmartProcessItem

Spec == Init /\ [][Next]_vars

----------------------------------------------------------------------------
(* Properties *)

Method(i) == requests[i].url[2]
GetReqs == {i \in DOMAIN requests : Method(i) = "crm.lead.get"}
FieldReqs == {i \in DOMAIN requests : Method(i) = "crm.lead.userfield.add"}
LinkReqs == {i \in DOMAIN requests : Method(i) = "crm.lead.update.json"}
LeadReqs == {i \in DOMAIN requests : Method(i) = "crm.lead.add"}

\* the reply is a failure of the transport, of the HTTP status or of the JSON decoding
ReplyFailed(reply) == reply.exc # "none" \/ reply.status >= 400 \/ ~reply.json_ok

\* get_candidate_data has returned after a failed request
FetchFailed == \E i \in GetReqs : ReplyFailed(requests[i].reply)

\* save_candidate_to_excel has returned something other than the saved-file message
EncodeFailed == excel_file # NoMessage /\ excel_file.text # SavedText

\* C1: when get_candidate_data ends in a failure, no spreadsheet file is
\* written and no later step of the run issues a CRM request.
C1_FetchFailureAborts ==
    FetchFailed => files = {} /\ FieldReqs = {} /\ LinkReqs = {}

\* C2: when save_candidate_to_excel fails, neither the userfield.add request
\* nor the lead.update request is issued in that run.
C2_EncodeFailureAborts ==
    EncodeFailed => FieldReqs = {} /\ LinkReqs = {}

\* C3: save_link_to_file is issued at most once, only after upload_file_to_lead
\* has returned a field id and with exactly that id; when upload_file_to_lead
\* returns no id the lead.update request is never issued.
C3_AttachOnlyWithFieldId ==
    /\ Cardinality(LinkReqs) <= 1
    /\ \A i \in LinkReqs :
        /\ field_id # None
        /\ DOMAIN requests[i].payload.fields = {field_id[1]}
        /\ \E j \in FieldReqs :
            /\ j < i
            /\ ~ReplyFailed(requests[j].reply)
            /\ "result" \in DOMAIN requests[j].reply.body
            /\ DOMAIN requests[i].payload.fields = {requests[j].reply.body.result}
    /\ (pc = "done" /\ FieldReqs # {} /\ field_id = None) => LinkReqs = {}

\* the attach request was made with the id 43 the CRM gave to the new field
C3_Witness ==
    /\ pc = "done"
    /\ \E i \in LinkReqs : DOMAIN requests[i].payload.fields = {43}

\* the value of key k of an import row is missing: no key, or an empty cell
Missing(item, k) == k \notin DOMAIN item \/ item[k] = None

\* C4: for every import row whose title or last_name is missing, no lead.add
\* request is issued for that row.
C4_NoRequestForRowMissingRequired ==
    \A i \in LeadReqs :
        /\ ~Missing(data[requests[i].item], "TITLE")
        /\ ~Missing(data[requests[i].item], "LAST_NAME")

\* a row that has every key and whose title and last_name are present
FullyValid(item) ==
    /\ ItemKeys \subseteq DOMAIN item
    /\ ~Missing(item, "TITLE")
    /\ ~Missing(item, "LAST_NAME")

\* the positions in data of the fully valid rows, in row order
ValidPositions ==
    SelectSeq([i \in 1..Len(data) |-> i], LAMBDA i : FullyValid(data[i]))

\* the positions in data the lead.add requests were made for, in request order
RequestedPositions ==
    LET leads == SelectSeq(requests, LAMBDA r : r.url[2] = "crm.lead.add")
    IN  [i \in 1..Len(leads) |-> leads[i].item]

\* C5: create_smart_process issues exactly one lead.add request per fully
\* valid row, in row order, and runs to completion over all rows whatever the
\* outcome of each request.
C5_OneRequestPerValidRow ==
    pc \in {"done", "raised"} => RequestedPositions = ValidPositions

\* the number of populated (non-empty) cells of a row
Populated(row) == Cardinality({c \in DOMAIN row : row[c] # None})

\* the import rows of the rows of `rows` that satisfy Keep, in order
RowsKept(rows, Keep(_)) ==
    LET kept == SelectSeq(rows, Keep)
    IN  [i \in 1..Len(kept) |-> ImportRow(kept[i])]

\* read_from_excel has returned after the workbook opened
ReadDone == load_exc = "none"

\* the rows of the sheet below its first (header) row
NonHeaderRows == IF sheet = << >> THEN << >> ELSE Tail(sheet)

\* C6 as stated: read_from_excel returns one import row per non-header row
\* that has at least five populated columns and skips every other row.
C6_RowsWithFivePopulatedColumns ==
    ReadDone => data = RowsKept(NonHeaderRows, LAMBDA row : Populated(row) >= 5)

\* C6 amended: read_from_excel returns, in sheet order, one import row per
\* non-header row whose tuple has at least five cells, empty or not, built from
\* its first five cells; rows of fewer than five cells are skipped and the
\* scan continues after them.
C6_RowsWithFiveCells ==
    ReadDone => data = RowsKept(NonHeaderRows, LAMBDA row : Len(row) >= 5)

\* a row of five cells followed a short row and was returned, with an empty cell
C6_Witness ==
    /\ ReadDone
    /\ Len(sheet) = 3
    /\ Len(sheet[2]) < 5
    /\ Len(sheet[3]) = 5
    /\ Populated(sheet[3]) < 5
    /\ data = <<ImportRow(sheet[3])>>

\* C7: when the CRM answers lead.get with a successful status and a
\* well-formed body without the result payload, get_candidate_data returns a
\* failure value (a dict with the key 'error').
C7_NoResultIsDataError ==
    \A i \in GetReqs :
        (~ReplyFailed(requests[i].reply) /\ "result" \notin DOMAIN requests[i].reply.body)
            => "error" \in DOMAIN candidate_data

\* C8: in every file save_candidate_to_excel writes, the phone column holds
\* the value of the first entry of the phone list, or 'N/A' when the list is
\* empty, likewise the email column, and no later entry appears in the row.
C8_FirstContactOrMarker ==
    \A f \in files :
        LET result == candidate_data.result
            row == f.rows[2]
            phones == IF "PHONE" \in DOMAIN result THEN result.PHONE ELSE << >>
            emails == IF "EMAIL" \in DOMAIN result THEN result.EMAIL ELSE << >>
            Later(list) == {list[k].VALUE : k \in {n \in 2..Len(list) :
                                "VALUE" \in DOMAIN list[n]}} \ {list[1].VALUE}
        IN  /\ row[4] = IF Len(phones) = 0 THEN "N/A" ELSE phones[1].VALUE
            /\ row[5] = IF Len(emails) = 0 THEN "N/A" ELSE emails[1].VALUE
            /\ \A c \in DOMAIN row :
                /\ Len(phones) > 1 => row[c] \notin Later(phones)
                /\ Len(emails) > 1 => row[c] \notin Later(emails)

\* a file was written for a lead with two different phones and no email
C8_Witness ==
    \E f \in files :
        /\ "PHONE" \in DOMAIN candidate_data.result
        /\ candidate_data.result.PHONE = <<[VALUE |-> "p2", VALUE_TYPE |-> "HOME"],
                                           [VALUE |-> "p1", VALUE_TYPE |-> "WORK"]>>
        /\ "EMAIL" \in DOMAIN candidate_data.result
        /\ candidate_data.result.EMAIL = << >>
        /\ f.rows[2][4] = "p2"
        /\ f.rows[2][5] = "N/A"

\* C9: in every run that reaches the attach step, the file name the field
\* label is derived from and the path written onto the lead are the name of
\* the file save_candidate_to_excel wrote in that run.
C9_LinkIsGeneratedFile ==
    \A i \in LinkReqs : \A f \in files :
        /\ requests[i].payload.fields[field_id[1]].value = f.name
        /\ \A j \in FieldReqs :
            requests[j].payload.fields.EDIT_FORM_LABEL[2] = Head(f.name)

\* the value v of an import row is absent: None or the empty string
Absent(v) == v = None \/ v = Some("")

\* C10: in every lead.add request the phone field is a one-element list
\* holding the row's phone with value type HOME when the phone is non-empty and
\* the empty list when it is absent, likewise the email; the name is the row's
\* name or 'Empty name' when absent; title and last_name are the row's.
C10_LeadFieldsFromRow ==
    \A i \in LeadReqs :
        LET row == data[requests[i].item]
            fields == requests[i].payload.fields
        IN  /\ fields.PHONE = IF Absent(row.PHONE) THEN << >>
                              ELSE <<[VALUE |-> row.PHONE, VALUE_TYPE |-> "HOME"]>>
            /\ fields.EMAIL = IF Absent(row.EMAIL) THEN << >>
                              ELSE <<[VALUE |-> row.EMAIL, VALUE_TYPE |-> "HOME"]>>
            /\ fields.NAME = IF Absent(row.NAME) THEN Some("Empty name") ELSE row.NAME
            /\ fields.TITLE = row.TITLE
            /\ fields.LAST_NAME = row.LAST_NAME

\* a request was made for a row with a phone, no email and no name
C10_Witness ==
    \E i \in LeadReqs :
        /\ data[requests[i].item].PHONE = Some("P")
        /\ data[requests[i].item].EMAIL = None
        /\ data[requests[i].item].NAME = None
        /\ requests[i].payload.fields.PHONE = <<[VALUE |-> Some("P"), VALUE_TYPE |-> "HOME"]>>
        /\ requests[i].payload.fields.EMAIL = << >>

\* C11: every operation returns normally for every input and every failure
\* of the HTTP or file call beneath it; no exception propagates to the caller,
\* also for import rows that pass the title/last_name check but lack the name,
\* phone or email key.
C11_NoExceptionEscapes ==
    raised = "none" /\ pc # "raised"

====
